---- MODULE Spec2Model ----
(***************************************************************************)
(* Model of the retrying HTTP client of mediabuyerbot/httpclient.          *)
(*                                                                         *)
(* New() builds an HttpClient by applying options; Do() runs the retry     *)
(* loop around the injected executor (Doer).  The model follows one        *)
(* client through its construction and one call of Do, one action per      *)
(* external call the loop makes (hook, executor, policy, backoff, error    *)
(* handler), in the order of the statements of Do.                         *)
(*                                                                         *)
(* Specifications.  Spec: a client built with the options that steer the   *)
(* loop, and one call of Do on an executor.  FairSpec: Spec with the       *)
(* calls Do makes returning.  NewSpec: New with all the options.           *)
(* VerbSpec: a client with a base URL called through Get, Post, Put and    *)
(* Delete.  ConcSpec: two calls in flight on one client, their steps       *)
(* interleaved.                                                            *)
(*                                                                         *)
(* Values.  A callback field is Nil or Fn.  An error value is a record     *)
(* [nil, msgs]: the nil error, or an error carrying its messages.  A       *)
(* response is a record [nil, id, StatusCode, Body]; id is the index of    *)
(* the attempt whose executor call produced it, Body is "nil", "open" or   *)
(* "closed".  The request body reader is a record [nil, off].              *)
(***************************************************************************)
EXTENDS Integers, Sequences, FiniteSets, TLC

\* ---------------------------------------------------------------- bounds
MaxRetryCount == 2

\* the largest retry count of a client shared by two calls
ConcRetryCount == 1

BodyLen == 2

\* ------------------------------------------------------------- constants
StatusInternalServerError == 500

StatusOK == 200

Nil == "nil"

Fn == "fn"

\* &http.Client{Timeout: DefaultHTTPTimeout}, and the executors WithDoer is given
DefaultClient == "http.Client"

Doers == {Nil, "doer"}

\* defaultBackOffPolicy, and the policies WithBackOff is given
DefaultBackOff == "defaultBackOffPolicy"

BackOffs == {Nil, Fn}

\* a string is a sequence of characters; Ctl is an ASCII control character
Ctl == "\\x7f"

\* the base URLs WithBaseURL is given
BaseURLs == {<<>>, <<"h">>, <<Ctl>>}

\* the url arguments the verb methods are given
Paths == {<<"p">>, <<Ctl>>}

MethodGet == "GET"

MethodPost == "POST"

MethodPut == "PUT"

MethodDelete == "DELETE"

\* retry counts an option may store: WithRetryCount validates nothing
RetryCounts == (0 - 1)..MaxRetryCount

\* status codes the executor answers with in the model
Statuses == {StatusOK, StatusInternalServerError - 1, StatusInternalServerError}

\* the captured request body B (reqData)
Payload == [k \in 1..BodyLen |-> k]

VARIABLES
    retryCount,     \* HttpClient.retryCount
    requestHook,    \* HttpClient.requestHook
    responseHook,   \* HttpClient.responseHook
    errorHook,      \* HttpClient.errorHook
    checkRetry,     \* HttpClient.checkRetry
    errorHandler,   \* HttpClient.errorHandler
    client,         \* HttpClient.client, the executor
    backOff,        \* HttpClient.backOff
    baseURL,        \* HttpClient.baseURL
    pc,             \* position of the caller: in New, or at a statement of Do
    bodyReader,     \* Do: bodyReader (nil when the request has no body)
    i,              \* Do: loop index
    resp,           \* Do: resp
    err,            \* Do: err of the current attempt
    multiErr,       \* Do: multiErr, the pushed messages in order
    numTries,       \* Do: numTries
    result,         \* the (response, error) pair Do returned
    handlerArgs,    \* arguments of the error handler's invocation
    handlerRet,     \* the pair the error handler returned
    trace,          \* history: the external calls Do made, in order
    other,          \* the locals of the other call in flight on the client
    overlapped      \* history: the processor changed hands with both calls in flight

vars == <<retryCount, requestHook, responseHook, errorHook, checkRetry,
          errorHandler, client, backOff, baseURL, pc, bodyReader, i, resp, err,
          multiErr, numTries, result, handlerArgs, handlerRet, trace, other, overlapped>>

config == <<retryCount, requestHook, responseHook, errorHook, checkRetry, errorHandler,
            client, backOff, baseURL>>

sched == <<other, overlapped>>

\* ---------------------------------------------------------------- values
NilErr == [nil |-> TRUE, msgs |-> <<>>]

NilResp == [nil |-> TRUE, id |-> 0, StatusCode |-> 0, Body |-> Nil]

NilReader == [nil |-> TRUE, off |-> 0]

\* errors.New(msg)
NewError(msg) == [nil |-> FALSE, msgs |-> <<msg>>]

\* err.Error() of an error made by errors.New
ErrorString(e) == e.msgs[1]

\* the transport error of attempt n, and the error check-retry answers with
RefusedErr(n) == NewError(<<"refused", n>>)

CheckErr(n) == NewError(<<"check err", n>>)

HandlerErr == NewError(<<"handler err", 0>>)

\* the error of a request body that cannot be read
ReadErr == NewError(<<"read err", 0>>)

\* a call Do made: its kind, the attempt index, the outcome of the call and,
\* for an executor call that produced a response, the status code and the
\* body of the response; for the request a verb method builds, the method
\* and the url argument
Ev(kind, n, a) == [ev |-> kind, i |-> n, arg |-> a, code |-> 0, body |-> Nil,
                   method |-> "", url |-> <<>>]

\* bytes.NewReader(reqData)
NewReader == [nil |-> FALSE, off |-> 0]

\* ioutil.ReadAll(req.Body) as a callee of Do sees it: the bytes from the
\* reader's offset to the end
ReadAll(r) == SubSeq(Payload, r.off + 1, BodyLen)

\* a callback that holds the request may read any number of bytes of its body
AfterRead(r) == IF r.nil THEN {r} ELSE {[r EXCEPT !.off = n] : n \in r.off..BodyLen}

\* bodyReader.Seek(0, 0), guarded by bodyReader != nil
Seek0(r) == IF r.nil THEN r ELSE [r EXCEPT !.off = 0]

\* valkyrie.MultiError.Push
Push(m, s) == Append(m, s)

\* mutant: the aggregate is returned as a non-nil error even when it is empty
HasErrorAlways(m) == [nil |-> FALSE, msgs |-> m]

\* valkyrie.MultiError.HasError
HasError(m) == IF Len(m) = 0 THEN NilErr ELSE [nil |-> FALSE, msgs |-> m]

\* mutants of the loop condition: one iteration too many, one too few
LoopCondOffByOne(n, rc) == n <= rc + 1

LoopCondStrict(n, rc) == n < rc

\* for i := 0; i <= c.retryCount; i++
LoopCond(n, rc) == n <= rc

\* mutant: the last permitted attempt counts as retryable
IsRetryOkInclusive(n, rc) == rc > 0 /\ n <= rc

\* isRetryOk := c.retryCount > 0 && i < c.retryCount
IsRetryOk(n, rc) == rc > 0 /\ n < rc

\* mutants of the default policy: 500 itself not retried; the status ignored
IsDefaultRetryPolicyAbove(status, retryOk) == status > StatusInternalServerError /\ retryOk

IsDefaultRetryPolicyAnyStatus(status, retryOk) == retryOk

\* isDefaultRetryPolicy := resp.StatusCode >= http.StatusInternalServerError && isRetryOk
IsDefaultRetryPolicy(status, retryOk) == status >= StatusInternalServerError /\ retryOk

\* mutant: the previous response's body is never closed
ShouldCloseNever(r) == FALSE

\* if resp != nil && resp.Body != nil
ShouldClose(r) == ~r.nil /\ r.Body # Nil

\* mutant: the rejection's error is dropped
CheckPushNothing(m, ans) == m

\* lines 153-156 and 177-180: a rejection's error, if any, is pushed
CheckPush(m, ans) == IF ~ans.ok /\ ~ans.err.nil THEN Push(m, ErrorString(ans.err)) ELSE m

\* mutant: check-retry sees a transport failure only when attempts remain
ConsultAfterErrorIfRetryOk(cr, retryOk) == cr # Nil /\ retryOk

\* line 151: if c.checkRetry != nil
ConsultAfterError(cr, retryOk) == cr # Nil

\* line 175: if c.checkRetry != nil && isRetryOk
ConsultAfterResponse(cr, retryOk) == cr # Nil /\ retryOk

\* mutant: a rejected response with a server error status is retried all the same
BreakAfterCheckUnlessServerError(ok, status) == ~ok /\ status < StatusInternalServerError

\* line 177: if !checkOK { ...; break }
BreakAfterCheck(ok, status) == ~ok

\* mutant: a failed executor call leaves the response of the earlier attempt
RespAfterExecKeptOnError(old, out) == IF out.err.nil THEN out.resp ELSE old

\* line 140: resp, err = c.client.Do(req) assigns resp on every attempt
RespAfterExec(old, out) == out.resp

\* mutant: a failed read of the body is ignored
ReadFailsNever(hasBody, readOK) == FALSE

\* lines 119-122: reqData, err := ioutil.ReadAll(req.Body); if err != nil
ReadFails(hasBody, readOK) == hasBody /\ ~readOK

\* what the executor may answer on attempt n
ExecOutcomes(n) ==
    {[resp |-> NilResp, err |-> RefusedErr(n)]}
    \cup {[resp |-> [nil |-> FALSE, id |-> n, StatusCode |-> s, Body |-> b], err |-> NilErr] :
            s \in Statuses, b \in {Nil, "open"}}

\* what a check-retry policy may answer on attempt n
CheckAnswers(n) == {[ok |-> o, err |-> e] : o \in BOOLEAN, e \in {NilErr, CheckErr(n)}}

\* the locals of a call of Do that has not started
NoCall == [pc |-> "new", bodyReader |-> NilReader, i |-> 0, resp |-> NilResp, err |-> NilErr,
           multiErr |-> <<>>, numTries |-> 0, result |-> <<NilResp, NilErr>>,
           handlerArgs |-> <<NilResp, NilErr, 0>>, handlerRet |-> <<NilResp, NilErr>>,
           trace |-> <<>>]

\* ------------------------------------------------------------------ Init
\* the HttpClient literal of New, before any option is applied
Init ==
    /\ retryCount = 0
    /\ requestHook = Nil
    /\ responseHook = Nil
    /\ errorHook = Nil
    /\ checkRetry = Nil
    /\ errorHandler = Nil
    /\ client = DefaultClient
    /\ backOff = DefaultBackOff
    /\ baseURL = <<>>
    /\ pc = "new"
    /\ bodyReader = NilReader
    /\ i = 0
    /\ resp = NilResp
    /\ err = NilErr
    /\ multiErr = <<>>
    /\ numTries = 0
    /\ result = <<NilResp, NilErr>>
    /\ handlerArgs = <<NilResp, NilErr, 0>>
    /\ handlerRet = <<NilResp, NilErr>>
    /\ trace = <<>>
    /\ other = NoCall
    /\ overlapped = FALSE

call == <<pc, bodyReader, i, resp, err, multiErr, numTries, result, handlerArgs, handlerRet, trace>>

\* --------------------------------------------------------------- options
\* the closures the With... functions return, applied to the client
DoerOpt(doer) ==
    /\ client' = doer
    /\ UNCHANGED <<retryCount, requestHook, responseHook, errorHook, checkRetry, errorHandler,
                   backOff, baseURL>>

RetryCountOpt(n) ==
    /\ retryCount' = n
    /\ UNCHANGED <<requestHook, responseHook, errorHook, checkRetry, errorHandler,
                   client, backOff, baseURL>>

RequestHookOpt(rh) ==
    /\ requestHook' = rh
    /\ UNCHANGED <<retryCount, responseHook, errorHook, checkRetry, errorHandler,
                   client, backOff, baseURL>>

ResponseHookOpt(rh) ==
    /\ responseHook' = rh
    /\ UNCHANGED <<retryCount, requestHook, errorHook, checkRetry, errorHandler,
                   client, backOff, baseURL>>

CheckRetryOpt(cr) ==
    /\ checkRetry' = cr
    /\ UNCHANGED <<retryCount, requestHook, responseHook, errorHook, errorHandler,
                   client, backOff, baseURL>>

BackOffOpt(b) ==
    IF b = Nil
    THEN UNCHANGED config
    ELSE /\ backOff' = b
         /\ UNCHANGED <<retryCount, requestHook, responseHook, errorHook, checkRetry,
                        errorHandler, client, baseURL>>

ErrorHookOpt(eh) ==
    /\ errorHook' = eh
    /\ UNCHANGED <<retryCount, requestHook, responseHook, checkRetry, errorHandler,
                   client, backOff, baseURL>>

ErrorHandlerOpt(eh) ==
    /\ errorHandler' = eh
    /\ UNCHANGED <<retryCount, requestHook, responseHook, errorHook, checkRetry,
                   client, backOff, baseURL>>

BaseURLOpt(u) ==
    /\ baseURL' = u
    /\ UNCHANGED <<retryCount, requestHook, responseHook, errorHook, checkRetry, errorHandler,
                   client, backOff>>

\* New applies an option: for _, opt := range opts { opt(&client) }
WithDoer ==
    /\ pc = "new"
    /\ \E doer \in Doers : DoerOpt(doer)
    /\ UNCHANGED <<call, sched>>

WithRetryCount ==
    /\ pc = "new"
    /\ \E n \in RetryCounts : RetryCountOpt(n)
    /\ UNCHANGED <<call, sched>>

WithRequestHook ==
    /\ pc = "new"
    /\ \E rh \in {Nil, Fn} : RequestHookOpt(rh)
    /\ UNCHANGED <<call, sched>>

WithResponseHook ==
    /\ pc = "new"
    /\ \E rh \in {Nil, Fn} : ResponseHookOpt(rh)
    /\ UNCHANGED <<call, sched>>

WithCheckRetry ==
    /\ pc = "new"
    /\ \E cr \in {Nil, Fn} : CheckRetryOpt(cr)
    /\ UNCHANGED <<call, sched>>

WithBackOff ==
    /\ pc = "new"
    /\ \E b \in BackOffs : BackOffOpt(b)
    /\ UNCHANGED <<call, sched>>

WithErrorHook ==
    /\ pc = "new"
    /\ \E eh \in {Nil, Fn} : ErrorHookOpt(eh)
    /\ UNCHANGED <<call, sched>>

WithErrorHandler ==
    /\ pc = "new"
    /\ \E eh \in {Nil, Fn} : ErrorHandlerOpt(eh)
    /\ UNCHANGED <<call, sched>>

WithBaseURL ==
    /\ pc = "new"
    /\ \E u \in BaseURLs : BaseURLOpt(u)
    /\ UNCHANGED <<call, sched>>

\* -------------------------------------------------------------------- Do
\* lines 115-128: capture the body, then enter the loop with i = 0; t is the
\* history at the call of Do, hasBody says req.Body != nil and readOK that
\* ioutil.ReadAll succeeds
DoEnter(t, hasBody, readOK) ==
    /\ trace' = IF hasBody THEN Append(t, Ev("readAll", 0, IF readOK THEN "ok" ELSE "err"))
                            ELSE t
    /\ IF ReadFails(hasBody, readOK)
       THEN /\ result' = <<NilResp, ReadErr>>
            /\ pc' = "done"
            /\ UNCHANGED bodyReader
       ELSE /\ bodyReader' = IF hasBody THEN NewReader ELSE NilReader
            /\ pc' = "for"
            /\ UNCHANGED result
    /\ multiErr' = <<>>
    /\ numTries' = 0
    /\ i' = 0
    /\ UNCHANGED <<config, sched, resp, err, handlerArgs, handlerRet>>

\* Do called with a request the caller built
DoSetup ==
    /\ pc = "new"
    /\ \E hasBody \in BOOLEAN, readOK \in BOOLEAN : DoEnter(trace, hasBody, readOK)

\* ---------------------------------------------------------- verb methods
\* url.Parse, as http.NewRequestWithContext calls it: a control character in
\* the url is an error
ParseOK(u) == \A k \in 1..Len(u) : u[k] # Ctl

\* mutant: the url argument is used without the base URL
TargetPathOnly(url) == url

\* if len(c.baseURL) > 0 { url = c.baseURL + url }
Target(url) == IF Len(baseURL) > 0 THEN baseURL \o url ELSE url

\* errors.Wrap(err, method + " - request creation failed")
WrapErr(method) == NewError(<<method, "request creation failed">>)

\* the body of a verb method: build the request, return on an error, call Do;
\* ctxOK says the context is not nil, hasBody that the body given to
\* http.NewRequestWithContext is not nil
Verb(method, url, ctxOK, hasBody, readOK) ==
    LET built == ctxOK /\ ParseOK(Target(url))
        t == Append(trace, [Ev("newRequest", 0, IF built THEN "ok" ELSE "err")
                              EXCEPT !.method = method, !.url = url])
    IN  IF built
        THEN DoEnter(t, hasBody, readOK)
        ELSE /\ trace' = t
             /\ result' = <<NilResp, WrapErr(method)>>
             /\ pc' = "done"
             /\ UNCHANGED <<config, sched, bodyReader, i, resp, err, multiErr, numTries,
                            handlerArgs, handlerRet>>

Get ==
    /\ pc = "new"
    /\ \E url \in Paths, ctxOK \in BOOLEAN :
          Verb(MethodGet, url, ctxOK, FALSE, TRUE)

Post ==
    /\ pc = "new"
    /\ \E url \in Paths, ctxOK \in BOOLEAN, hasBody \in BOOLEAN, readOK \in BOOLEAN :
          Verb(MethodPost, url, ctxOK, hasBody, readOK)

Put ==
    /\ pc = "new"
    /\ \E url \in Paths, ctxOK \in BOOLEAN, hasBody \in BOOLEAN, readOK \in BOOLEAN :
          Verb(MethodPut, url, ctxOK, hasBody, readOK)

Delete ==
    /\ pc = "new"
    /\ \E url \in Paths, ctxOK \in BOOLEAN :
          Verb(MethodDelete, url, ctxOK, FALSE, TRUE)

\* lines 129-133: the loop condition, and the close of the previous response
ForCond ==
    /\ pc = "for"
    /\ IF LoopCond(i, retryCount)
       THEN /\ pc' = "requestHook"
            /\ IF ShouldClose(resp)
               THEN /\ resp' = [resp EXCEPT !.Body = "closed"]
                    /\ trace' = Append(trace, Ev("close", resp.id, ""))
               ELSE UNCHANGED <<resp, trace>>
       ELSE /\ pc' = "errorHandler"
            /\ UNCHANGED <<resp, trace>>
    /\ UNCHANGED <<config, sched, bodyReader, i, err, multiErr, numTries, result, handlerArgs, handlerRet>>

\* mutant: the request hook runs before the retries only, not before the
\* initial attempt
RequestHookOnRetriesOnly ==
    /\ pc = "requestHook"
    /\ IF requestHook # Nil /\ i > 0
       THEN /\ bodyReader' \in AfterRead(bodyReader)
            /\ trace' = Append(trace, Ev("requestHook", i, ""))
       ELSE UNCHANGED <<bodyReader, trace>>
    /\ pc' = "execute"
    /\ UNCHANGED <<config, sched, i, resp, err, multiErr, numTries, result, handlerArgs, handlerRet>>

\* lines 135-137
RequestHook ==
    /\ pc = "requestHook"
    /\ IF requestHook # Nil
       THEN /\ bodyReader' \in AfterRead(bodyReader)
            /\ trace' = Append(trace, Ev("requestHook", i, ""))
       ELSE UNCHANGED <<bodyReader, trace>>
    /\ pc' = "execute"
    /\ UNCHANGED <<config, sched, i, resp, err, multiErr, numTries, result, handlerArgs, handlerRet>>

\* lines 139-144: the executor call, then the seek back to offset zero
Execute ==
    /\ pc = "execute"
    /\ IF client = Nil
       THEN \* c.client.Do on a nil Doer: a nil dereference, Do panics
            /\ pc' = "panic"
            /\ UNCHANGED <<resp, err, trace, bodyReader>>
       ELSE /\ \E out \in ExecOutcomes(i) :
                  /\ resp' = RespAfterExec(resp, out)
                  /\ err' = out.err
                  /\ trace' = Append(trace, [Ev("exec", i, IF out.err.nil THEN "resp" ELSE "err")
                                                EXCEPT !.code = out.resp.StatusCode,
                                                       !.body = out.resp.Body])
                  /\ pc' = IF out.err.nil THEN "responseHook" ELSE "errorHook"
            /\ bodyReader' = Seek0(bodyReader)
    /\ UNCHANGED <<config, sched, i, multiErr, numTries, result, handlerArgs, handlerRet>>

\* lines 145-149: the error hook, then the push of the transport error
ErrorHook ==
    /\ pc = "errorHook"
    /\ IF errorHook # Nil
       THEN /\ bodyReader' \in AfterRead(bodyReader)
            /\ trace' = Append(trace, Ev("errorHook", i, ""))
       ELSE UNCHANGED <<bodyReader, trace>>
    /\ multiErr' = Push(multiErr, ErrorString(err))
    /\ pc' = "checkRetryErr"
    /\ UNCHANGED <<config, sched, i, resp, err, numTries, result, handlerArgs, handlerRet>>

\* lines 151-159: check-retry after a transport failure
CheckRetryErr ==
    /\ pc = "checkRetryErr"
    /\ IF ConsultAfterError(checkRetry, IsRetryOk(i, retryCount))
       THEN \E ans \in CheckAnswers(i) :
               /\ bodyReader' \in AfterRead(bodyReader)
               /\ trace' = Append(trace, Ev("checkRetry", i,
                                IF ans.ok THEN "ok" ELSE IF ans.err.nil THEN "reject" ELSE "rejectErr"))
               /\ multiErr' = CheckPush(multiErr, ans)
               /\ pc' = IF ~ans.ok THEN "errorHandler" ELSE "backOffErr"
       ELSE /\ pc' = "backOffErr"
            /\ UNCHANGED <<bodyReader, trace, multiErr>>
    /\ UNCHANGED <<config, sched, i, resp, err, numTries, result, handlerArgs, handlerRet>>

\* mutant: the client's retry count is used up by the retries of a call
BackOffErrSpendsRetry ==
    /\ pc = "backOffErr"
    /\ IF IsRetryOk(i, retryCount)
       THEN trace' = Append(trace, Ev("backOff", i, ""))
       ELSE UNCHANGED trace
    /\ numTries' = numTries + 1
    /\ i' = i + 1
    /\ pc' = "for"
    /\ retryCount' = IF retryCount > 0 THEN retryCount - 1 ELSE retryCount
    /\ UNCHANGED <<requestHook, responseHook, errorHook, checkRetry, errorHandler, client,
                   backOff, baseURL>>
    /\ UNCHANGED <<sched, bodyReader, resp, err, multiErr, result, handlerArgs, handlerRet>>

\* lines 160-165: backoff, numTries++, continue
BackOffErr ==
    /\ pc = "backOffErr"
    /\ IF IsRetryOk(i, retryCount)
       THEN trace' = Append(trace, Ev("backOff", i, ""))
       ELSE UNCHANGED trace
    /\ numTries' = numTries + 1
    /\ i' = i + 1
    /\ pc' = "for"
    /\ UNCHANGED <<config, sched, bodyReader, resp, err, multiErr, result, handlerArgs, handlerRet>>

\* lines 168-170
ResponseHook ==
    /\ pc = "responseHook"
    /\ IF responseHook # Nil
       THEN /\ bodyReader' \in AfterRead(bodyReader)
            /\ trace' = Append(trace, Ev("responseHook", i, ""))
       ELSE UNCHANGED <<bodyReader, trace>>
    /\ pc' = "retryPolicy"
    /\ UNCHANGED <<config, sched, i, resp, err, multiErr, numTries, result, handlerArgs, handlerRet>>

\* lines 172-194 up to the decision: check-retry after a response, or the
\* default policy; nextLoop leads to the backoff, otherwise the loop breaks
RetryPolicy ==
    /\ pc = "retryPolicy"
    /\ IF ConsultAfterResponse(checkRetry, IsRetryOk(i, retryCount))
       THEN \E ans \in CheckAnswers(i) :
               /\ bodyReader' \in AfterRead(bodyReader)
               /\ trace' = Append(trace, Ev("checkRetry", i,
                                IF ans.ok THEN "ok" ELSE IF ans.err.nil THEN "reject" ELSE "rejectErr"))
               /\ multiErr' = CheckPush(multiErr, ans)
               /\ pc' = IF BreakAfterCheck(ans.ok, resp.StatusCode) THEN "errorHandler" ELSE "backOffResp"
       ELSE /\ pc' = IF IsDefaultRetryPolicy(resp.StatusCode, IsRetryOk(i, retryCount))
                     THEN "backOffResp" ELSE "errorHandler"
            /\ UNCHANGED <<bodyReader, trace, multiErr>>
    /\ UNCHANGED <<config, sched, i, resp, err, numTries, result, handlerArgs, handlerRet>>

\* lines 188-193: backoff, numTries++, continue
BackOffResp ==
    /\ pc = "backOffResp"
    /\ trace' = Append(trace, Ev("backOff", i, ""))
    /\ numTries' = numTries + 1
    /\ i' = i + 1
    /\ pc' = "for"
    /\ UNCHANGED <<config, sched, bodyReader, resp, err, multiErr, result, handlerArgs, handlerRet>>

\* the pairs an error handler may return, given its arguments
HandlerReturns(r, e) == {<<r2, e2>> : r2 \in {r, NilResp}, e2 \in {e, NilErr, HandlerErr}}

\* mutant: the handler's return value is dropped
FinalResultIgnoresHandler(eh, ret, r, e) == <<r, e>>

\* lines 196-199: what Do returns
FinalResult(eh, ret, r, e) == IF eh # Nil THEN ret ELSE <<r, e>>

\* lines 196-199: the error handler, if any, and the return
Return ==
    /\ pc = "errorHandler"
    /\ IF errorHandler # Nil
       THEN /\ handlerArgs' = <<resp, HasError(multiErr), numTries>>
            /\ handlerRet' \in HandlerReturns(resp, HasError(multiErr))
            /\ trace' = Append(trace, Ev("errorHandler", numTries, ""))
       ELSE UNCHANGED <<handlerArgs, handlerRet, trace>>
    /\ result' = FinalResult(errorHandler, handlerRet', resp, HasError(multiErr))
    /\ pc' = "done"
    /\ UNCHANGED <<config, sched, bodyReader, i, resp, err, multiErr, numTries>>

\* the statements of Do after the setup: the call proceeds as long as every
\* executor call, hook, policy call and backoff sleep returns
DoStep ==
    \/ ForCond
    \/ RequestHook
    \/ Execute
    \/ ErrorHook
    \/ CheckRetryErr
    \/ BackOffErr
    \/ ResponseHook
    \/ RetryPolicy
    \/ BackOffResp
    \/ Return

Next ==
    \/ WithRetryCount
    \/ WithRequestHook
    \/ WithResponseHook
    \/ WithCheckRetry
    \/ WithErrorHook
    \/ WithErrorHandler
    \/ DoSetup
    \/ ForCond
    \/ RequestHook
    \/ Execute
    \/ ErrorHook
    \/ CheckRetryErr
    \/ BackOffErr
    \/ ResponseHook
    \/ RetryPolicy
    \/ BackOffResp
    \/ Return

Spec == Init /\ [][Next]_vars

\* New with every option of the package
NewNext ==
    \/ WithDoer
    \/ WithRetryCount
    \/ WithRequestHook
    \/ WithResponseHook
    \/ WithCheckRetry
    \/ WithBackOff
    \/ WithErrorHook
    \/ WithErrorHandler
    \/ WithBaseURL

NewSpec == Init /\ [][NewNext]_vars

\* a client with a base URL, called through its verb methods
VerbNext ==
    \/ WithBaseURL
    \/ WithDoer
    \/ WithRetryCount
    \/ WithErrorHandler
    \/ Get
    \/ Post
    \/ Put
    \/ Delete
    \/ DoStep

VerbSpec == Init /\ [][VerbNext]_vars

\* a call that has started and not returned
InFlight(l) == l \notin {"new", "done", "panic"}

\* two goroutines call the client; the scheduler takes the processor from
\* the call whose locals are in pc .. trace and gives it to the other one
Switch ==
    /\ pc' = other.pc
    /\ bodyReader' = other.bodyReader
    /\ i' = other.i
    /\ resp' = other.resp
    /\ err' = other.err
    /\ multiErr' = other.multiErr
    /\ numTries' = other.numTries
    /\ result' = other.result
    /\ handlerArgs' = other.handlerArgs
    /\ handlerRet' = other.handlerRet
    /\ trace' = other.trace
    /\ other' = [pc |-> pc, bodyReader |-> bodyReader, i |-> i, resp |-> resp, err |-> err,
                 multiErr |-> multiErr, numTries |-> numTries, result |-> result,
                 handlerArgs |-> handlerArgs, handlerRet |-> handlerRet, trace |-> trace]
    /\ overlapped' = (overlapped \/ (InFlight(pc) /\ InFlight(other.pc)))
    /\ UNCHANGED config

\* New(WithRetryCount(n), WithBaseURL(u)) has returned
ConcInit ==
    /\ retryCount \in 0..ConcRetryCount
    /\ baseURL = <<"h">>
    /\ requestHook = Nil
    /\ responseHook = Nil
    /\ errorHook = Nil
    /\ checkRetry = Nil
    /\ errorHandler = Nil
    /\ client = DefaultClient
    /\ backOff = DefaultBackOff
    /\ pc = "new"
    /\ bodyReader = NilReader
    /\ i = 0
    /\ resp = NilResp
    /\ err = NilErr
    /\ multiErr = <<>>
    /\ numTries = 0
    /\ result = <<NilResp, NilErr>>
    /\ handlerArgs = <<NilResp, NilErr, 0>>
    /\ handlerRet = <<NilResp, NilErr>>
    /\ trace = <<>>
    /\ other = NoCall
    /\ overlapped = FALSE

ConcNext ==
    \/ DoSetup
    \/ Get
    \/ DoStep
    \/ Switch

ConcSpec == ConcInit /\ [][ConcNext]_vars

\* ------------------------------------------------------------ properties
Count(kind) == Len(SelectSeq(trace, LAMBDA e : e.ev = kind))

\* the executor invocations of the call, in order
ExecEvents == SelectSeq(trace, LAMBDA e : e.ev = "exec")

ExecCalls == Len(ExecEvents)

\* the request was built and its body, if any, was read into memory
SetupOK == \A k \in 1..Len(trace) : ~(trace[k].ev \in {"readAll", "newRequest"} /\ trace[k].arg = "err")

\* Do went through its loop and returned
Returned == pc = "done" /\ SetupOK

AllExecErr == \A k \in 1..ExecCalls : ExecEvents[k].arg = "err"

AllExec5xx == \A k \in 1..ExecCalls :
                 ExecEvents[k].arg = "resp" /\ ExecEvents[k].code >= StatusInternalServerError

\* check-retry was consulted on the first attempt and answered (false, e), e non-nil
FirstAttemptRejectedWithErr ==
    \E k \in 1..Len(trace) : trace[k].ev = "checkRetry" /\ trace[k].i = 0 /\ trace[k].arg = "rejectErr"

\* C1: for every retryCount >= 0, whatever the hooks, check-retry, backoff,
\* error handler and executor outcomes, a call of Do invokes the executor
\* at most retryCount + 1 times.
C1_ExecutorAtMostRetryCountPlusOne ==
    retryCount >= 0 => ExecCalls <= retryCount + 1

C1_Witness ==
    /\ pc = "done"
    /\ retryCount = MaxRetryCount
    /\ ExecCalls = retryCount + 1
    /\ checkRetry # Nil
    /\ errorHandler # Nil
    /\ requestHook # Nil
    /\ \E k \in 1..ExecCalls : ExecEvents[k].arg = "err"
    /\ \E k \in 1..ExecCalls : ExecEvents[k].arg = "resp"

\* C2 as stated: if every executor invocation returns a transport error and
\* no check-retry is configured, Do invokes the executor exactly
\* retryCount + 1 times and returns a nil response with a non-nil aggregate
\* error of exactly retryCount + 1 messages.
C2_Original ==
    (Returned /\ retryCount >= 0 /\ checkRetry = Nil /\ AllExecErr)
        => /\ ExecCalls = retryCount + 1
           /\ result[1].nil
           /\ ~result[2].nil
           /\ Len(result[2].msgs) = retryCount + 1

\* C2 amended: under the same premises the executor is invoked exactly
\* retryCount + 1 times and the nil response and the non-nil aggregate of
\* exactly retryCount + 1 messages are what Do returns when no error handler
\* is configured, and what the error handler is given otherwise.
C2_AllTransportErrors ==
    (Returned /\ retryCount >= 0 /\ checkRetry = Nil /\ AllExecErr)
        => /\ ExecCalls = retryCount + 1
           /\ LET out == IF errorHandler = Nil THEN result ELSE handlerArgs
              IN  /\ out[1].nil
                  /\ ~out[2].nil
                  /\ Len(out[2].msgs) = retryCount + 1

C2_Witness ==
    /\ Returned
    /\ retryCount = MaxRetryCount
    /\ checkRetry = Nil
    /\ errorHandler = Nil
    /\ AllExecErr
    /\ ExecCalls = retryCount + 1
    /\ Len(result[2].msgs) = retryCount + 1

\* C3 as stated: with no check-retry, if every executor invocation returns a
\* response with status >= 500, Do invokes the executor exactly
\* retryCount + 1 times and returns the last response with a nil error.
C3_Original ==
    (Returned /\ retryCount >= 0 /\ checkRetry = Nil /\ AllExec5xx)
        => /\ ExecCalls = retryCount + 1
           /\ ~result[1].nil
           /\ result[1].id = retryCount
           /\ result[1].StatusCode = ExecEvents[ExecCalls].code
           /\ result[2].nil

\* C3 amended: under the same premises the executor is invoked exactly
\* retryCount + 1 times, and the last response with a nil error is what Do
\* returns when no error handler is configured, and what the error handler
\* is given otherwise.
C3_AllServerErrors ==
    (Returned /\ retryCount >= 0 /\ checkRetry = Nil /\ AllExec5xx)
        => /\ ExecCalls = retryCount + 1
           /\ LET out == IF errorHandler = Nil THEN result ELSE handlerArgs
              IN  /\ ~out[1].nil
                  /\ out[1].id = retryCount
                  /\ out[1].StatusCode = ExecEvents[ExecCalls].code
                  /\ out[2].nil

C3_Witness ==
    /\ Returned
    /\ retryCount = MaxRetryCount
    /\ checkRetry = Nil
    /\ errorHandler = Nil
    /\ AllExec5xx
    /\ ExecCalls = retryCount + 1
    /\ result[1].id = retryCount
    /\ result[1].StatusCode = StatusInternalServerError

\* the first executor invocation returned a response with a status below 500
FirstExecBelow500 ==
    /\ ExecCalls >= 1
    /\ ExecEvents[1].arg = "resp"
    /\ ExecEvents[1].code < StatusInternalServerError

\* C4 as stated: with no check-retry, if the first executor invocation
\* returns a response with status 200 (any status below 500), Do invokes the
\* executor exactly once for every retryCount >= 0 and returns that response
\* with a nil error.
C4_Original ==
    (Returned /\ retryCount >= 0 /\ checkRetry = Nil /\ FirstExecBelow500)
        => /\ ExecCalls = 1
           /\ ~result[1].nil
           /\ result[1].id = 0
           /\ result[1].StatusCode = ExecEvents[1].code
           /\ result[2].nil

\* C4 amended: under the same premises the executor is invoked exactly once
\* and that response with a nil error is what Do returns when no error
\* handler is configured, and what the error handler is given otherwise.
C4_FirstAttemptSuccess ==
    (Returned /\ retryCount >= 0 /\ checkRetry = Nil /\ FirstExecBelow500)
        => /\ ExecCalls = 1
           /\ LET out == IF errorHandler = Nil THEN result ELSE handlerArgs
              IN  /\ ~out[1].nil
                  /\ out[1].id = 0
                  /\ out[1].StatusCode = ExecEvents[1].code
                  /\ out[2].nil

C4_Witness ==
    /\ Returned
    /\ retryCount = MaxRetryCount
    /\ checkRetry = Nil
    /\ errorHandler = Nil
    /\ FirstExecBelow500
    /\ ExecCalls = 1
    /\ result[1].StatusCode = StatusOK
    /\ result[2].nil

\* C5 as stated: for every retryCount >= 0 and both kinds of first-attempt
\* outcome, when check-retry answers (false, e) with e non-nil for the first
\* attempt, Do invokes the executor exactly once, invokes no backoff, and
\* the error it returns contains e's message.
C5_Original ==
    (Returned /\ retryCount >= 0 /\ FirstAttemptRejectedWithErr)
        => /\ ExecCalls = 1
           /\ Count("backOff") = 0
           /\ ~result[2].nil
           /\ \E k \in 1..Len(result[2].msgs) : result[2].msgs[k] = ErrorString(CheckErr(0))

\* C5 amended: under the same premises the executor is invoked exactly once,
\* no backoff is invoked, and the aggregate error, which Do returns when no
\* error handler is configured and hands to the error handler otherwise,
\* contains e's message.
C5_FirstAttemptRejection ==
    (Returned /\ retryCount >= 0 /\ FirstAttemptRejectedWithErr)
        => /\ ExecCalls = 1
           /\ Count("backOff") = 0
           /\ LET out == IF errorHandler = Nil THEN result ELSE handlerArgs
              IN  /\ ~out[2].nil
                  /\ \E k \in 1..Len(out[2].msgs) : out[2].msgs[k] = ErrorString(CheckErr(0))

C5_Witness ==
    /\ Returned
    /\ retryCount = MaxRetryCount
    /\ errorHandler = Nil
    /\ FirstAttemptRejectedWithErr
    /\ ExecEvents[1].arg = "resp"
    /\ ExecCalls = 1
    /\ result[2].msgs = <<ErrorString(CheckErr(0))>>

\* C6: on every attempt the request body is at offset zero when the executor
\* is invoked, so the executor reads back exactly the bytes of B, also on an
\* attempt that follows one in which a hook or check-retry read the body.
\* Stated for the clients without a request hook, where nothing runs between
\* the end of one attempt and the executor call of the next.
C6_ExecutorReadsWholeBody ==
    (pc = "execute" /\ ~bodyReader.nil /\ requestHook = Nil)
        => ReadAll(bodyReader) = Payload

\* C7: a configured error handler is invoked exactly once, after the last
\* attempt, whatever the outcome of the loop, and the pair Do returns is
\* exactly the pair the handler returned.
C7_HandlerOnceAndFinal ==
    /\ Count("errorHandler") <= 1
    /\ Count("errorHandler") = 1 => (pc = "done" /\ trace[Len(trace)].ev = "errorHandler")
    /\ (Returned /\ errorHandler # Nil) => (Count("errorHandler") = 1 /\ result = handlerRet)

C7_Witness ==
    /\ Returned
    /\ errorHandler # Nil
    /\ ExecCalls >= 2
    /\ Count("errorHandler") = 1
    /\ result = <<NilResp, HandlerErr>>
    /\ ~resp.nil
    /\ Len(multiErr) = 1

\* C8: the numTries argument of the error handler equals the number of
\* retries performed beyond the first attempt, i.e. the number of executor
\* invocations of the call minus one, for every retryCount >= 0.
C8_NumTriesIsRetries ==
    (Returned /\ errorHandler # Nil /\ retryCount >= 0)
        => handlerArgs[3] = ExecCalls - 1

\* the executor and backoff invocations of the call, in order
AttemptsAndBackOffs == SelectSeq(trace, LAMBDA e : e.ev \in {"exec", "backOff"})

\* C9: exactly one backoff invocation occurs between any two consecutive
\* executor invocations, none after the terminal attempt, and none at all
\* when retryCount = 0.
C9_BackOffOnlyBetweenAttempts ==
    LET E == AttemptsAndBackOffs
    IN  /\ \A k \in 1..Len(E) : E[k].ev = (IF k % 2 = 1 THEN "exec" ELSE "backOff")
        /\ pc = "done" => (Len(E) = 0 \/ E[Len(E)].ev = "exec")
        /\ retryCount = 0 => Count("backOff") = 0

C9_Witness ==
    /\ pc = "done"
    /\ retryCount = MaxRetryCount
    /\ ExecCalls = retryCount + 1
    /\ Count("backOff") = retryCount
    /\ ExecEvents[1].arg = "err"
    /\ ExecEvents[2].arg = "resp"

\* the transport failures and the check-retry rejection errors of the call,
\* in the order in which they occurred
Failures ==
    SelectSeq(trace, LAMBDA e : \/ (e.ev = "exec" /\ e.arg = "err")
                                 \/ (e.ev = "checkRetry" /\ e.arg = "rejectErr"))

FailureMsg(e) == IF e.ev = "exec" THEN ErrorString(RefusedErr(e.i)) ELSE ErrorString(CheckErr(e.i))

LaterAttempts(k) == {j \in (k + 1)..Len(trace) : trace[j].ev \in {"requestHook", "exec"}}

\* positions of the trace where the body of the response of attempt n is closed
Closes(n) == {j \in 1..Len(trace) : trace[j].ev = "close" /\ trace[j].i = n}

Calls(kind) == SelectSeq(trace, LAMBDA e : e.ev = kind)

\* C12: the request hook is invoked exactly once before each executor
\* invocation, with attempt indices 0, 1, 2, ... in order; the response hook
\* exactly once after each executor invocation that returned a response and
\* never after a transport failure; the error hook exactly once after each
\* transport failure, with that attempt's index, and never after a response.
C12_HooksPerAttempt ==
    /\ requestHook # Nil =>
          /\ \A m \in 1..Len(Calls("requestHook")) : Calls("requestHook")[m].i = m - 1
          /\ \A k \in 1..Len(trace) :
                /\ trace[k].ev = "exec"
                      => (k > 1 /\ trace[k - 1].ev = "requestHook" /\ trace[k - 1].i = trace[k].i)
                /\ trace[k].ev = "requestHook"
                      => IF k < Len(trace) THEN trace[k + 1].ev = "exec" ELSE pc = "execute"
    /\ responseHook # Nil =>
          \A k \in 1..Len(trace) :
             /\ (trace[k].ev = "exec" /\ trace[k].arg = "resp")
                   => IF k < Len(trace)
                      THEN trace[k + 1].ev = "responseHook" /\ trace[k + 1].i = trace[k].i
                      ELSE pc = "responseHook"
             /\ trace[k].ev = "responseHook"
                   => (k > 1 /\ trace[k - 1].ev = "exec" /\ trace[k - 1].arg = "resp")
    /\ errorHook # Nil =>
          \A k \in 1..Len(trace) :
             /\ (trace[k].ev = "exec" /\ trace[k].arg = "err")
                   => IF k < Len(trace)
                      THEN trace[k + 1].ev = "errorHook" /\ trace[k + 1].i = trace[k].i
                      ELSE pc = "errorHook"
             /\ trace[k].ev = "errorHook"
                   => (k > 1 /\ trace[k - 1].ev = "exec" /\ trace[k - 1].arg = "err")

C12_Witness ==
    /\ Returned
    /\ requestHook # Nil
    /\ responseHook # Nil
    /\ errorHook # Nil
    /\ ExecCalls = 3
    /\ Count("requestHook") = 3
    /\ Count("errorHook") = 2
    /\ Count("responseHook") = 1
    /\ Calls("errorHook")[2].i = 2

FairSpec == Init /\ [][Next]_vars /\ WF_vars(DoStep)

\* why the loop was left: a check-retry rejection, a response not marked for
\* retry, or the end of the attempt with index retryCount
LoopEndCause ==
    /\ ExecCalls >= 1
    /\ LET last == ExecEvents[ExecCalls]
       IN  \/ \E k \in 1..Len(trace) : /\ trace[k].ev = "checkRetry"
                                       /\ trace[k].i = last.i
                                       /\ trace[k].arg \in {"reject", "rejectErr"}
           \/ /\ last.arg = "resp"
              /\ \A k \in 1..Len(trace) : ~(trace[k].ev = "backOff" /\ trace[k].i = last.i)
           \/ last.i = retryCount

\* C13: every call of Do eventually returns, for every retryCount >= 0 and
\* every sequence of executor outcomes; the loop ends at a check-retry
\* rejection, at a response not marked for retry, or after the attempt with
\* index retryCount.
C13_DoReturns ==
    /\ [](pc \notin {"new", "done"} => <>(pc = "done"))
    /\ []((pc = "errorHandler" /\ retryCount >= 0) => LoopEndCause)

C13_Witness ==
    /\ Returned
    /\ retryCount = MaxRetryCount
    /\ ExecCalls = retryCount + 1
    /\ ExecEvents[ExecCalls].arg = "resp"
    /\ ExecEvents[ExecCalls].code = StatusInternalServerError
    /\ checkRetry # Nil

\* C14: when check-retry is invoked after a failed request and returns a
\* non-nil error, the error Do returns is check-retry's error in lieu of the
\* error from the request: the request's transport error is not part of what
\* Do returns.  Stated for the clients without an error handler, whose Do
\* returns the aggregate itself.
C14_CheckErrorInLieuOfTransportError ==
    \A k \in 1..Len(trace) :
       (/\ Returned
        /\ errorHandler = Nil
        /\ trace[k].ev = "checkRetry"
        /\ trace[k].arg = "rejectErr"
        /\ ExecEvents[ExecCalls].arg = "err"
        /\ ExecEvents[ExecCalls].i = trace[k].i)
           => /\ ~result[2].nil
              /\ \E m \in 1..Len(result[2].msgs) : result[2].msgs[m] = ErrorString(CheckErr(trace[k].i))
              /\ \A m \in 1..Len(result[2].msgs) : result[2].msgs[m] # ErrorString(RefusedErr(trace[k].i))

\* a step that applies an option built from a nil policy value
NilOptionApplied ==
    /\ pc = "new"
    /\ \/ DoerOpt(Nil)
       \/ BackOffOpt(Nil)
       \/ RequestHookOpt(Nil)
       \/ ResponseHookOpt(Nil)
       \/ ErrorHookOpt(Nil)
       \/ CheckRetryOpt(Nil)
       \/ ErrorHandlerOpt(Nil)

\* C15: applying an option built from a nil policy value leaves every
\* configuration field unchanged, after any sequence of earlier options; it
\* never clears a previously set or default executor or backoff.
C15_NilOptionsAreNoOps ==
    [][NilOptionApplied => UNCHANGED config]_vars

\* the request a verb method was asked for, if one was called
VerbCalled == Len(trace) > 0 /\ trace[1].ev = "newRequest"

\* the call made no attempt: nothing but the construction of the request
NothingInvoked ==
    /\ Len(trace) = 1
    /\ handlerArgs = NoCall.handlerArgs
    /\ resp.nil /\ err.nil /\ multiErr = <<>> /\ numTries = 0 /\ i = 0

\* C17: a verb method that cannot build a request from the base URL
\* concatenated with the given path returns a nil response and a
\* request-construction error, and invokes neither the executor nor a hook,
\* a policy or the error handler.
C17_ConstructionFailureReturnsAtOnce ==
    (VerbCalled /\ ~ParseOK(baseURL \o trace[1].url))
        => /\ pc = "done"
           /\ result = <<NilResp, NewError(<<trace[1].method, "request creation failed">>)>>
           /\ NothingInvoked

\* a client with a base URL, an executor and an error handler, whose
\* verb method failed on the path it was given
C17_Witness ==
    /\ VerbCalled /\ ~ParseOK(baseURL \o trace[1].url)
    /\ baseURL = <<"h">> /\ trace[1].url = <<Ctl>> /\ trace[1].method = MethodPost
    /\ errorHandler = Fn /\ client = "doer" /\ retryCount > 0
    /\ pc = "done"

\* the answers the executor gave to the call with history t, in order
OutcomesOf(t) ==
    LET ex == SelectSeq(t, LAMBDA e : e.ev = "exec")
    IN  [k \in 1..Len(ex) |->
            IF ex[k].arg = "err"
            THEN [resp |-> NilResp, err |-> RefusedErr(ex[k].i)]
            ELSE [resp |-> [nil |-> FALSE, id |-> ex[k].i, StatusCode |-> ex[k].code,
                            Body |-> ex[k].body],
                  err |-> NilErr]]

\* a call of Do alone on a client with retry count rc and neither check-retry
\* nor error handler, against the executor answers outs: from attempt n, with
\* the response r at hand, the aggregate m and nt retries counted, to its
\* return. An attempt for which outs has no answer is counted and ends the run.
RECURSIVE RunFrom(_, _, _, _, _, _)
RunFrom(rc, outs, n, r, m, nt) ==
    IF ~LoopCond(n, rc)
    THEN [attempts |-> n, multiErr |-> m, numTries |-> nt, result |-> <<r, HasError(m)>>]
    ELSE IF n >= Len(outs)
    THEN [attempts |-> n + 1, multiErr |-> m, numTries |-> nt, result |-> <<r, HasError(m)>>]
    ELSE LET out == outs[n + 1]
         IN  IF ~out.err.nil
             THEN RunFrom(rc, outs, n + 1, out.resp, Push(m, ErrorString(out.err)), nt + 1)
             ELSE IF IsDefaultRetryPolicy(out.resp.StatusCode, IsRetryOk(n, rc))
             THEN RunFrom(rc, outs, n + 1, out.resp, m, nt + 1)
             ELSE [attempts |-> n + 1, multiErr |-> m, numTries |-> nt,
                   result |-> <<out.resp, HasError(m)>>]

RunAlone(rc, outs) == RunFrom(rc, outs, 0, NilResp, <<>>, 0)

\* a call with locals c went through the loop and returned
ReturnedCall(c) ==
    /\ c.pc = "done"
    /\ \A k \in 1..Len(c.trace) :
          ~(c.trace[k].ev \in {"readAll", "newRequest"} /\ c.trace[k].arg = "err")

\* what the call with locals c did and returned
Summary(c) ==
    [attempts |-> Len(OutcomesOf(c.trace)), multiErr |-> c.multiErr, numTries |-> c.numTries,
     result |-> c.result]

\* the locals of the call that holds the processor
Running ==
    [pc |-> pc, bodyReader |-> bodyReader, i |-> i, resp |-> resp, err |-> err,
     multiErr |-> multiErr, numTries |-> numTries, result |-> result,
     handlerArgs |-> handlerArgs, handlerRet |-> handlerRet, trace |-> trace]

AsAlone(c) == ReturnedCall(c) => Summary(c) = RunAlone(retryCount, OutcomesOf(c.trace))

\* C16: two calls of Do (or Get) in flight on one client are independent: no
\* step of a call writes a configuration field or a local of the other call,
\* and each call's attempt count, accumulated errors, numTries and result
\* are, in every interleaving, those of the call running alone against the
\* executor answers it got.
C16_ConcurrentCallsIndependent ==
    /\ [][UNCHANGED config]_vars
    /\ [][other' = other \/ (other' = Running /\ Running' = other)]_vars
    /\ [](AsAlone(Running) /\ AsAlone(other))

\* both calls returned after their steps were interleaved, and the two calls
\* got different answers from the executor
C16_Witness ==
    /\ overlapped
    /\ ReturnedCall(Running) /\ ReturnedCall(other)
    /\ retryCount = 1
    /\ Summary(Running).attempts = 2 /\ Summary(other).attempts = 1
    /\ ~Summary(Running).result[2].nil /\ Summary(other).result[2].nil

\* C18: with no error handler, when all retryCount + 1 attempts were made
\* and the last one failed with a transport error or a status >= 500, Do
\* closes the body of the last response and returns a non-nil error.
C18_ExpiredRetriesCloseAndFail ==
    (/\ Returned
     /\ errorHandler = Nil
     /\ retryCount >= 0
     /\ ExecCalls = retryCount + 1
     /\ \/ ExecEvents[ExecCalls].arg = "err"
        \/ ExecEvents[ExecCalls].code >= StatusInternalServerError)
        => /\ ~result[2].nil
           /\ (ExecEvents[ExecCalls].arg = "resp" /\ ExecEvents[ExecCalls].body # Nil)
                 => Closes(ExecEvents[ExecCalls].i) # {}

\* positions of the trace where check-retry is consulted about attempt n
ConsultsOf(n) == {k \in 1..Len(trace) : trace[k].ev = "checkRetry" /\ trace[k].i = n}

\* attempt n is past the point where check-retry is consulted
PastPolicy(n) == n < i \/ pc \in {"backOffErr", "backOffResp", "errorHandler", "done"}

Settled(n) == n < i \/ pc \in {"errorHandler", "done"}

\* attempt n was followed by a backoff and another iteration
Retried(n) == \E k \in 1..Len(trace) : trace[k].ev = "backOff" /\ trace[k].i = n

\* C20: with check-retry configured and attempts remaining, a response is
\* retried exactly when check-retry answers true, whatever its status (a
\* status below 500 is retried on true, a status >= 500 ends the loop on
\* false); the status >= 500 rule decides only when no check-retry is
\* configured.
C20_DecisionIsCheckRetrys ==
    \A k \in 1..ExecCalls :
       LET e == ExecEvents[k]
       IN  (e.arg = "resp" /\ Settled(e.i))
              => (Retried(e.i) <=>
                    IF checkRetry # Nil /\ e.i < retryCount
                    THEN \E c \in ConsultsOf(e.i) : trace[c].arg = "ok"
                    ELSE /\ checkRetry = Nil
                         /\ IsDefaultRetryPolicy(e.code, IsRetryOk(e.i, retryCount)))

\* check-retry had a 200 retried, then ended the loop at a 500 with an
\* attempt left
C20_Witness ==
    /\ Returned
    /\ checkRetry # Nil
    /\ retryCount = 2
    /\ ExecCalls = 2
    /\ ExecEvents[1].arg = "resp" /\ ExecEvents[1].code = StatusOK
    /\ ExecEvents[2].arg = "resp" /\ ExecEvents[2].code = StatusInternalServerError
    /\ Retried(0) /\ ~Retried(1)
    /\ result[1].StatusCode = StatusInternalServerError

\* C21: with no error handler, the response Do returns is the response
\* value the last executor invocation of the call produced; it is nil when
\* the last attempt ended in a transport failure, also when an earlier
\* attempt of the call had received a response.
C21_ReturnsLastExecutorResponse ==
    (Returned /\ errorHandler = Nil /\ ExecCalls >= 1)
        => /\ result[1] = OutcomesOf(trace)[ExecCalls].resp
           /\ ExecEvents[ExecCalls].arg = "err" => result[1].nil

\* attempt 0 received a response with a body, attempt 1 failed, and Do
\* returned a nil response
C21_Witness ==
    /\ Returned
    /\ errorHandler = Nil
    /\ ExecCalls = 2
    /\ ExecEvents[1].arg = "resp" /\ ExecEvents[1].body = "open"
    /\ ExecEvents[2].arg = "err"
    /\ result[1].nil
    /\ ~result[2].nil

\* C22: for every retry count WithRetryCount stores, negative ones included,
\* a call of Do whose request body was read invokes the executor at least
\* once before it returns, and Do never returns a nil response together with
\* a nil error without an attempt.
C22_AtLeastOneAttempt ==
    Returned
        => /\ ExecCalls >= 1
           /\ errorHandler = Nil => ~(result[1].nil /\ result[2].nil)

\* the read of the request body failed during the setup
ReadFailed == \E k \in 1..Len(trace) : trace[k].ev = "readAll" /\ trace[k].arg = "err"

\* C23: if reading the request body fails during the setup, Do returns a
\* nil response and the read error at once: no executor invocation, no hook,
\* no policy, and a configured error handler is not invoked.
C23_ReadFailureReturnsAtOnce ==
    ReadFailed
        => /\ pc = "done"
           /\ result = <<NilResp, ReadErr>>
           /\ Len(trace) = 1
           /\ ExecCalls = 0
           /\ handlerArgs = NoCall.handlerArgs
           /\ handlerRet = NoCall.handlerRet
           /\ resp.nil /\ err.nil /\ multiErr = <<>> /\ numTries = 0 /\ i = 0

\* the read failed on a client with retries, every hook, a check-retry and
\* an error handler
C23_Witness ==
    /\ ReadFailed
    /\ pc = "done"
    /\ retryCount > 0
    /\ requestHook # Nil /\ responseHook # Nil /\ errorHook # Nil
    /\ checkRetry # Nil /\ errorHandler # Nil
    /\ result = <<NilResp, ReadErr>>

====
